---- MODULE Spec2Model ----
(***************************************************************************)
(* Collaboration requests of the skill-share backend                       *)
(* (backend/app/routes/collab_requests.py) run through the transactional   *)
(* cursor of backend/app/db.py against PostgreSQL at its default isolation *)
(* level, READ COMMITTED: a plain SELECT reads the last committed version  *)
(* of a row (or the transaction's own write) and never blocks; UPDATE and  *)
(* DELETE take the row lock, wait for the transaction that holds it, and   *)
(* then act on the latest committed version of the row, if it still        *)
(* exists; the lock is released by commit or rollback.                     *)
(***************************************************************************)
EXTENDS Integers, FiniteSets, Sequences, TLC

\* ---------------------------------------------------------------- bounds
MaxClock == 3      \* number of transactions that get to write in a behaviour

Workers   == {"w1", "w2"}           \* concurrent request handlers
Users     == {1, 2, 3}              \* the users that exist; actors of calls
Askers    == {1, 2}                 \* users a create payload names
ReqIds    == {1}                    \* ids the collab_requests sequence hands out
Strangers == {4}                    \* an id no row of users carries
SkillIds  == {1}                    \* ids of rows of table skills
ReviewIds == {1, 2}                 \* ids the reviews sequence hands out
SchedAts  == {1}                    \* scheduled_at instants a payload carries
Null      == 0                      \* None / SQL NULL of an Optional column
Message   == "hello"                \* the message text of every payload

\* ------------------------------------------------ collab_requests.py 12-21
ReqStatus == {"PENDING", "ACCEPTED", "DECLINED", "CANCELLED", "COMPLETED"}

\* The table with the edge ACCEPTED -> COMPLETED left out.
ALLOWED_TRANSITIONS_no_complete ==
    [old \in ReqStatus |->
        CASE old = "PENDING"  -> {"ACCEPTED", "DECLINED", "CANCELLED"}
          [] old = "ACCEPTED" -> {"CANCELLED"}
          [] OTHER            -> {}]

\* The table with the edge ACCEPTED -> CANCELLED left out.
ALLOWED_TRANSITIONS_no_cancel_accepted ==
    [old \in ReqStatus |->
        CASE old = "PENDING"  -> {"ACCEPTED", "DECLINED", "CANCELLED"}
          [] old = "ACCEPTED" -> {"COMPLETED"}
          [] OTHER            -> {}]

ALLOWED_TRANSITIONS ==
    [old \in ReqStatus |->
        CASE old = "PENDING"  -> {"ACCEPTED", "DECLINED", "CANCELLED"}
          [] old = "ACCEPTED" -> {"CANCELLED", "COMPLETED"}
          [] OTHER            -> {}]

Terminal == {"DECLINED", "CANCELLED", "COMPLETED"}

\* A row that is not there: _fetch returns None.
NoRow == [id |-> Null]

\* Column defaults of table collab_requests, which the INSERT of create_collab
\* leaves to the database (status, created_at, updated_at are not in its
\* column list).
column_defaults(now) ==
    [status |-> "PENDING", created_at |-> now, updated_at |-> now]

VARIABLES
    requests,     \* committed table collab_requests: id -> row or NoRow
    next_id,      \* next value of the id sequence
    lock,         \* id -> worker whose open transaction wrote the row, or "none"
    clock,        \* the database clock
    pc,           \* worker -> "idle" | "write" | "commit"
    call,         \* worker -> the operation and arguments of its call in flight
    ret,          \* worker -> the value its handler returns
    txn_now,      \* worker -> now() of its transaction
    last,         \* the call that finished last: its arguments, the row it
                  \* loaded if a check failed on it, the value returned, the
                  \* HTTP status
    history,      \* id -> the new_status of every set_status call that
                  \*       returned the updated row, in commit order
    skills,       \* committed table skills: id -> "active" | "inactive" |
                  \*       "absent" (no such row)
    reviews,      \* committed table reviews: the set of its rows
    review_seq,   \* next value of the id sequence of reviews
    audit_log,    \* committed table audit_log: its rows in commit order
    audit_txn,    \* worker -> the audit_log rows its open transaction inserted
    checked_out,  \* number of connections out of the pool
    _pg_pool,     \* db._pg_pool: Null (None) or the ConnectionPool it names
    pool_seq      \* number of ConnectionPool objects created so far

vars == <<requests, next_id, lock, clock, pc, call, ret, txn_now, last,
          history, skills, reviews, review_seq, audit_log, audit_txn,
          checked_out, _pg_pool, pool_seq>>

pool_state == <<_pg_pool, pool_seq>>

\* The tables the collab_requests handlers never write.
others == <<skills, reviews, review_seq, audit_log, audit_txn>>

NoCall == [op |-> "none", id |-> Null, actor |-> Null, new_status |-> "NONE",
           scheduled_at |-> Null]

NoLast == [call |-> NoCall, req |-> NoRow, ret |-> NoRow, result |-> Null]

Init ==
    /\ requests = [i \in ReqIds |-> NoRow]
    /\ next_id = 1
    /\ lock = [i \in ReqIds |-> "none"]
    /\ clock = 1
    /\ pc = [w \in Workers |-> "idle"]
    /\ call = [w \in Workers |-> NoCall]
    /\ ret = [w \in Workers |-> NoRow]
    /\ txn_now = [w \in Workers |-> Null]
    /\ last = NoLast
    /\ history = [i \in ReqIds |-> <<>>]
    /\ skills = [s \in SkillIds |-> "active"]
    /\ reviews = {}
    /\ review_seq = 1
    /\ audit_log = <<>>
    /\ audit_txn = [w \in Workers |-> <<>>]
    /\ checked_out = 0
    /\ _pg_pool = 1
    /\ pool_seq = 1

\* ---------------------------------------------------------------- helpers
\* A SELECT that reads the row version an open transaction has written and
\* not yet committed.
_fetch_dirty(request_id) ==
    IF request_id \in DOMAIN requests
    THEN IF \E w \in Workers : lock[request_id] = w /\ pc[w] = "commit"
         THEN ret[CHOOSE w \in Workers : lock[request_id] = w]
         ELSE requests[request_id]
    ELSE NoRow

\* _fetch on a cursor that has written nothing yet: the committed row.
_fetch(request_id) ==
    IF request_id \in DOMAIN requests THEN requests[request_id] ELSE NoRow

\* _can_transition that also lets a status "change" to itself.
_can_transition_reflexive(old, new) ==
    new \in (IF old \in DOMAIN ALLOWED_TRANSITIONS
             THEN ALLOWED_TRANSITIONS[old] \cup {old} ELSE {})

\* _can_transition that treats a status without an entry as PENDING.
_can_transition_default_pending(old, new) ==
    new \in (IF old \in DOMAIN ALLOWED_TRANSITIONS
             THEN ALLOWED_TRANSITIONS[old] ELSE ALLOWED_TRANSITIONS["PENDING"])

_can_transition(old, new) ==
    new \in (IF old \in DOMAIN ALLOWED_TRANSITIONS
             THEN ALLOWED_TRANSITIONS[old] ELSE {})

\* _is_party with the test inverted.
_is_party_negated(r, actor_id) ==
    actor_id \notin {r.requester_id, r.receiver_id}

_is_party(r, actor_id) ==
    actor_id \in {r.requester_id, r.receiver_id}

_user_exists(uid) == uid \in Users

\* set_status that refuses an illegal transition only while the request has
\* no scheduled_at.
set_status_check_unscheduled(r, actor_user_id, new) ==
    IF r = NoRow THEN 404
    ELSE IF ~_is_party(r, actor_user_id) THEN 403
    ELSE IF r.scheduled_at = Null /\ ~_can_transition(r.status, new) THEN 409
    ELSE IF new \in {"ACCEPTED", "DECLINED"} /\ actor_user_id # r.receiver_id
         THEN 403
    ELSE 0

\* set_status without the rule that only the receiver accepts or declines.
set_status_check_any_party(r, actor_user_id, new) ==
    IF r = NoRow THEN 404
    ELSE IF ~_is_party(r, actor_user_id) THEN 403
    ELSE IF ~_can_transition(r.status, new) THEN 409
    ELSE IF new = "COMPLETED" /\ r.status # "ACCEPTED" THEN 409
    ELSE 0

\* set_status with the receiver rule ahead of the transition table.
set_status_check_role_first(r, actor_user_id, new) ==
    IF r = NoRow THEN 404
    ELSE IF ~_is_party(r, actor_user_id) THEN 403
    ELSE IF new \in {"ACCEPTED", "DECLINED"} /\ actor_user_id # r.receiver_id
         THEN 403
    ELSE IF ~_can_transition(r.status, new) THEN 409
    ELSE IF new = "COMPLETED" /\ r.status # "ACCEPTED" THEN 409
    ELSE 0

\* The checks of set_status in the order of the code; 0 when all pass.
set_status_check(r, actor_user_id, new) ==
    IF r = NoRow THEN 404
    ELSE IF ~_is_party(r, actor_user_id) THEN 403
    ELSE IF ~_can_transition(r.status, new) THEN 409
    ELSE IF new \in {"ACCEPTED", "DECLINED"} /\ actor_user_id # r.receiver_id
         THEN 403
    ELSE IF new = "COMPLETED" /\ r.status # "ACCEPTED" THEN 409
    ELSE 0

\* reschedule that accepts a PENDING request only.
reschedule_check_pending_only(r, actor_user_id) ==
    IF r = NoRow THEN 404
    ELSE IF ~_is_party(r, actor_user_id) THEN 403
    ELSE IF r.status # "PENDING" THEN 409
    ELSE 0

reschedule_check(r, actor_user_id) ==
    IF r = NoRow THEN 404
    ELSE IF ~_is_party(r, actor_user_id) THEN 403
    ELSE IF r.status \notin {"PENDING", "ACCEPTED"} THEN 409
    ELSE 0

\* delete_collab that refuses a request in a terminal status.
delete_check_open_only(r, actor_user_id) ==
    IF r = NoRow THEN 404
    ELSE IF ~_is_party(r, actor_user_id) THEN 403
    ELSE IF r.status \in Terminal THEN 409
    ELSE 0

delete_check(r, actor_user_id) ==
    IF r = NoRow THEN 404
    ELSE IF ~_is_party(r, actor_user_id) THEN 403
    ELSE 0

\* The checks of create_collab with the self-request test after the lookups.
create_check_lookups_first(requester_id, receiver_id) ==
    IF ~_user_exists(requester_id) THEN 404
    ELSE IF ~_user_exists(receiver_id) THEN 404
    ELSE IF requester_id = receiver_id THEN 400
    ELSE 0

create_check(requester_id, receiver_id) ==
    IF requester_id = receiver_id THEN 400
    ELSE IF ~_user_exists(requester_id) THEN 404
    ELSE IF ~_user_exists(receiver_id) THEN 404
    ELSE 0

\* An UPDATE of set_status that also empties message.
update_status_clears_message(r, new, now) ==
    [r EXCEPT !.status = new, !.updated_at = now, !.message = ""]

\* What the UPDATE of set_status makes of the row it finds.
update_status(r, new, now) ==
    [r EXCEPT !.status = new, !.updated_at = now]

\* What the UPDATE of reschedule makes of the row it finds.
update_scheduled_at(r, scheduled_at, now) ==
    [r EXCEPT !.scheduled_at = scheduled_at, !.updated_at = now]


\* _skill_exists: a row of skills with that id, active or not.
_skill_exists(sid) == sid \in DOMAIN skills /\ skills[sid] # "absent"

\* Skill checks that look up offered_skill_id only.
create_skills_check_offered_only(offered_skill_id, wanted_skill_id) ==
    IF offered_skill_id # Null /\ ~_skill_exists(offered_skill_id) THEN 404
    ELSE 0

\* The skill checks of create_collab: a None skill id is not looked up.
create_skills_check(offered_skill_id, wanted_skill_id) ==
    IF offered_skill_id # Null /\ ~_skill_exists(offered_skill_id) THEN 404
    ELSE IF wanted_skill_id # Null /\ ~_skill_exists(wanted_skill_id) THEN 404
    ELSE 0

\* A pool whose connection stays out when conn.commit() raises.
pool_exit_leak_on_commit_failure(n, how) ==
    IF how = "commit_failed" THEN n ELSE n - 1

\* The with-block around _pg_pool.connection() in cursor_readonly and
\* cursor_write: however the block is left (how), the connection goes back
\* to the pool; n is the number of connections out while it is open.
pool_exit(n, how) == n - 1

\* cursor_write with autocommit left on: what has been written stays.
cursor_write_exit_autocommit(raised, committed, written) == written

\* What cursor_write leaves of a table: conn.commit() makes the transaction's
\* writes the committed table, conn.rollback() after an exception leaves the
\* committed table as it was.
cursor_write_exit(raised, committed, written) ==
    IF raised THEN committed ELSE written

\* ---------------------------------------------------------------- actions
\* A start of a handler in which the DELETE of delete_collab has run in
\* autocommit before the checks raise.
begin_delete_before_checks(w, c, r, e, v, p) ==
    /\ pc[w] = "idle"
    /\ _pg_pool # Null
    /\ IF e = 0
       THEN /\ clock <= MaxClock
            /\ pc' = [pc EXCEPT ![w] = p]
            /\ call' = [call EXCEPT ![w] = c]
            /\ ret' = [ret EXCEPT ![w] = v]
            /\ txn_now' = [txn_now EXCEPT ![w] = clock]
            /\ clock' = clock + 1
            /\ checked_out' = checked_out + 1
            /\ last' = last
            /\ requests' = requests
       ELSE /\ last' = [call |-> c, req |-> r, ret |-> NoRow,
                        result |-> e]
            /\ checked_out' = pool_exit(checked_out + 1, "http_error")
            /\ requests' = IF c.op = "delete" /\ r # NoRow
                           THEN [requests EXCEPT ![r.id] = NoRow]
                           ELSE requests
            /\ UNCHANGED <<pc, call, ret, txn_now, clock>>
    /\ UNCHANGED <<lock, history, others, pool_state>>

\* A handler starts on an idle worker: cursor_write opens the transaction, the
\* handler loads row r and runs its checks with outcome e.  A check that fails
\* raises HTTPException, which cursor_write answers with rollback (nothing has
\* been written yet) and the call is over; otherwise the handler goes on to
\* step p with v in hand.
begin(w, c, r, e, v, p) ==
    /\ pc[w] = "idle"
    /\ _pg_pool # Null
    /\ IF e = 0
       THEN /\ clock <= MaxClock
            /\ pc' = [pc EXCEPT ![w] = p]
            /\ call' = [call EXCEPT ![w] = c]
            /\ ret' = [ret EXCEPT ![w] = v]
            /\ txn_now' = [txn_now EXCEPT ![w] = clock]
            /\ clock' = clock + 1
            /\ checked_out' = checked_out + 1
            /\ last' = last
       ELSE /\ last' = [call |-> c, req |-> r, ret |-> NoRow,
                        result |-> e]
            /\ checked_out' = pool_exit(checked_out + 1, "http_error")
            /\ UNCHANGED <<pc, call, ret, txn_now, clock>>
    /\ UNCHANGED <<requests, lock, history, others, pool_state>>

\* An INSERT that names the status column and writes ACCEPTED.
new_row_accepted(id, requester_id, receiver_id, offered_skill_id, wanted_skill_id, scheduled_at, now) ==
    [id |-> id, requester_id |-> requester_id, receiver_id |-> receiver_id,
     offered_skill_id |-> offered_skill_id,
     wanted_skill_id |-> wanted_skill_id,
     message |-> Message,
     scheduled_at |-> scheduled_at,
     status |-> "ACCEPTED",
     created_at |-> column_defaults(now).created_at,
     updated_at |-> column_defaults(now).updated_at]

\* The row the INSERT of create_collab adds.
new_row(id, requester_id, receiver_id, offered_skill_id, wanted_skill_id, scheduled_at, now) ==
    [id |-> id, requester_id |-> requester_id, receiver_id |-> receiver_id,
     offered_skill_id |-> offered_skill_id,
     wanted_skill_id |-> wanted_skill_id,
     message |-> Message,
     scheduled_at |-> scheduled_at,
     status |-> column_defaults(now).status,
     created_at |-> column_defaults(now).created_at,
     updated_at |-> column_defaults(now).updated_at]

\* create_collab for a payload without skill ids.  No handler deletes a user,
\* so nothing can come between the user checks and this INSERT, and the two
\* are one step.
create_collab(w, requester_id, receiver_id, scheduled_at) ==
    LET e == create_check(requester_id, receiver_id)
        c == [op |-> "create", id |-> IF e = 0 THEN next_id ELSE Null,
              actor |-> requester_id, new_status |-> "NONE",
              scheduled_at |-> scheduled_at]
    IN  /\ e = 0 => next_id \in ReqIds
        /\ begin(w, c, NoRow, e,
                 new_row(next_id, requester_id, receiver_id, Null, Null,
                         scheduled_at, clock),
                 "commit")
        /\ next_id' = IF e = 0 THEN next_id + 1 ELSE next_id

set_status(w, request_id, actor_user_id, new_status) ==
    LET r == _fetch(request_id)
        c == [op |-> "set_status", id |-> request_id, actor |-> actor_user_id,
              new_status |-> new_status, scheduled_at |-> Null]
    IN  /\ begin(w, c, r, set_status_check(r, actor_user_id, new_status),
                 NoRow, "write")
        /\ UNCHANGED next_id

reschedule(w, request_id, actor_user_id, scheduled_at) ==
    LET r == _fetch(request_id)
        c == [op |-> "reschedule", id |-> request_id, actor |-> actor_user_id,
              new_status |-> "NONE", scheduled_at |-> scheduled_at]
    IN  /\ begin(w, c, r, reschedule_check(r, actor_user_id), NoRow, "write")
        /\ UNCHANGED next_id

delete_collab(w, request_id, actor_user_id) ==
    LET r == _fetch(request_id)
        c == [op |-> "delete", id |-> request_id, actor |-> actor_user_id,
              new_status |-> "NONE", scheduled_at |-> Null]
    IN  /\ begin(w, c, r, delete_check(r, actor_user_id), NoRow, "write")
        /\ UNCHANGED next_id

\* The row an UPDATE ... WHERE id = %s writes, given the row r it finds.
written(c, r, now) ==
    CASE c.op = "set_status" -> update_status(r, c.new_status, now)
      [] c.op = "reschedule" -> update_scheduled_at(r, c.scheduled_at, now)
      [] OTHER               -> NoRow

\* The statement under a lock on the whole table instead of the row.
write_table_lock(w) ==
    /\ pc[w] = "write"
    /\ \A i \in DOMAIN lock : lock[i] = "none"
    /\ LET id == call[w].id IN
        IF requests[id] = NoRow
        THEN /\ lock' = lock
             /\ ret' = [ret EXCEPT ![w] = NoRow]
        ELSE /\ lock' = [lock EXCEPT ![id] = w]
             /\ ret' = [ret EXCEPT ![w] =
                   written(call[w], requests[id], txn_now[w])]
    /\ pc' = [pc EXCEPT ![w] = "commit"]
    /\ UNCHANGED <<requests, next_id, clock, call, txn_now, last, history,
                   others, checked_out, pool_state>>

\* The UPDATE / DELETE statement of set_status, reschedule and delete_collab,
\* followed by the handler's return.  The statement waits while another open
\* transaction holds the row; then it acts on the committed row, if there is
\* one, and holds the row until commit.  With no row it affects nothing.  The
\* handlers do not look at the statement's row count: set_status and
\* reschedule return _fetch(request_id), which is None when the row is gone.
write(w) ==
    /\ pc[w] = "write"
    /\ LET id == call[w].id IN
        /\ lock[id] = "none"
        /\ IF requests[id] = NoRow
           THEN /\ lock' = lock
                /\ ret' = [ret EXCEPT ![w] = NoRow]
           ELSE /\ lock' = [lock EXCEPT ![id] = w]
                /\ ret' = [ret EXCEPT ![w] =
                      written(call[w], requests[id], txn_now[w])]
    /\ pc' = [pc EXCEPT ![w] = "commit"]
    /\ UNCHANGED <<requests, next_id, clock, call, txn_now, last, history,
                   others, checked_out, pool_state>>

success_code(op) ==
    CASE op = "create" -> 201
      [] op = "delete" -> 204
      [] OTHER         -> 200

\* A commit that leaves the transaction's row lock in place.
commit_keeps_row_lock(w) ==
    /\ pc[w] = "commit"
    /\ call[w].op \in {"create", "set_status", "reschedule", "delete"}
    /\ LET id    == call[w].id
           wrote == call[w].op = "create" \/ lock[id] = w
       IN
        /\ requests' = IF wrote THEN [requests EXCEPT ![id] = ret[w]]
                       ELSE requests
        /\ lock' = lock
        /\ history' =
              IF call[w].op = "set_status" /\ ret[w] # NoRow
              THEN [history EXCEPT ![id] = Append(@, call[w].new_status)]
              ELSE history
    /\ last' = [call |-> call[w], req |-> NoRow, ret |-> ret[w],
                result |-> success_code(call[w].op)]
    /\ pc' = [pc EXCEPT ![w] = "idle"]
    /\ call' = [call EXCEPT ![w] = NoCall]
    /\ ret' = [ret EXCEPT ![w] = NoRow]
    /\ txn_now' = [txn_now EXCEPT ![w] = Null]
    /\ checked_out' = pool_exit(checked_out, "return")
    /\ UNCHANGED <<next_id, clock, others, pool_state>>

\* cursor_write after the handler returned: conn.commit().  The transaction's
\* write becomes the committed row, its row lock is released and the call is
\* over.
commit(w) ==
    /\ pc[w] = "commit"
    /\ call[w].op \in {"create", "set_status", "reschedule", "delete"}
    /\ LET id    == call[w].id
           wrote == call[w].op = "create" \/ lock[id] = w
       IN
        /\ requests' = IF wrote THEN [requests EXCEPT ![id] = ret[w]]
                       ELSE requests
        /\ lock' = IF lock[id] = w THEN [lock EXCEPT ![id] = "none"] ELSE lock
        /\ history' =
              IF call[w].op = "set_status" /\ ret[w] # NoRow
              THEN [history EXCEPT ![id] = Append(@, call[w].new_status)]
              ELSE history
    /\ last' = [call |-> call[w], req |-> NoRow, ret |-> ret[w],
                result |-> success_code(call[w].op)]
    /\ pc' = [pc EXCEPT ![w] = "idle"]
    /\ call' = [call EXCEPT ![w] = NoCall]
    /\ ret' = [ret EXCEPT ![w] = NoRow]
    /\ txn_now' = [txn_now EXCEPT ![w] = Null]
    /\ checked_out' = pool_exit(checked_out, "return")
    /\ UNCHANGED <<next_id, clock, others, pool_state>>

Next ==
    \E w \in Workers :
        \/ \E a \in Askers, b \in Askers, t \in {Null} \cup SchedAts :
              create_collab(w, a, b, t)
        \/ \E i \in ReqIds, a \in Users, s \in ReqStatus :
              set_status(w, i, a, s)
        \/ \E i \in ReqIds, a \in Users, t \in SchedAts :
              reschedule(w, i, a, t)
        \/ \E i \in ReqIds, a \in Users :
              delete_collab(w, i, a)
        \/ write(w)
        \/ commit(w)

Spec == Init /\ [][Next]_vars

\* ------------------------------------------------- units of work in full
\* The calls below are taken statement by statement, with skills that a
\* concurrent delete_skill removes, a handler that writes the audit log, a
\* read-only handler, and statements and commits that the storage fails.

\* The skills a row or a create payload refers to.
skill_refs(r) ==
    IF r = NoRow THEN {}
    ELSE {r.offered_skill_id, r.wanted_skill_id} \ {Null}

\* A DELETE of skill sid is written and not yet committed: it holds the row.
purging(sid) ==
    \E v \in Workers :
        /\ pc[v] = "commit" /\ call[v].op = "delete_skill"
        /\ call[v].id = sid /\ call[v].purge

\* create_collab up to its INSERT: the checks of lines 149-161.
create_collab_checks(w, requester_id, receiver_id, offered_skill_id, wanted_skill_id, scheduled_at) ==
    LET c  == [op |-> "create", id |-> Null,
               requester_id |-> requester_id, receiver_id |-> receiver_id,
               offered_skill_id |-> offered_skill_id,
               wanted_skill_id |-> wanted_skill_id,
               scheduled_at |-> scheduled_at]
        e1 == create_check(requester_id, receiver_id)
        e  == IF e1 # 0 THEN e1
              ELSE create_skills_check(offered_skill_id, wanted_skill_id)
    IN  /\ e = 0 =>
              next_id + Cardinality({v \in Workers : pc[v] = "insert"})
                 \in ReqIds
        /\ begin(w, c, NoRow, e, NoRow, "insert")
        /\ UNCHANGED next_id

\* The INSERT of create_collab and the return of _fetch(new_id).  The foreign
\* keys of the new row are checked against the committed skills; the check
\* waits for a DELETE in flight on a skill it refers to.  ForeignKeyViolation
\* is caught and raised as HTTPException 400, which cursor_write answers with
\* rollback.
create_collab_insert(w) ==
    /\ pc[w] = "insert"
    /\ LET p == call[w] IN
        /\ \A s \in skill_refs(p) : ~purging(s)
        /\ next_id' = next_id + 1
        /\ IF \A s \in skill_refs(p) : _skill_exists(s)
           THEN /\ pc' = [pc EXCEPT ![w] = "commit"]
                /\ call' = [call EXCEPT ![w].id = next_id]
                /\ ret' = [ret EXCEPT ![w] =
                      new_row(next_id, p.requester_id, p.receiver_id,
                              p.offered_skill_id, p.wanted_skill_id,
                              p.scheduled_at, txn_now[w])]
                /\ UNCHANGED <<txn_now, last, checked_out>>
           ELSE /\ pc' = [pc EXCEPT ![w] = "idle"]
                /\ call' = [call EXCEPT ![w] = NoCall]
                /\ ret' = [ret EXCEPT ![w] = NoRow]
                /\ txn_now' = [txn_now EXCEPT ![w] = Null]
                /\ last' = [call |-> p, req |-> NoRow, ret |-> NoRow,
                            result |-> 400]
                /\ checked_out' = pool_exit(checked_out, "http_error")
    /\ UNCHANGED <<requests, lock, clock, history, others, pool_state>>

\* delete_skill: the lookup and the DELETE (purge) or UPDATE ... SET
\* is_active = false.  The statement waits for another delete_skill in flight
\* on the row, and a DELETE waits for an open transaction that inserted a
\* reference to the skill.  What a DELETE does to stored requests that refer
\* to the skill is left to the schema; such a DELETE is not taken here.
delete_skill(w, sid, purge) ==
    LET c == [op |-> "delete_skill", id |-> sid, purge |-> purge]
        e == IF _skill_exists(sid) THEN 0 ELSE 404
    IN  /\ \A v \in Workers :
              ~(pc[v] = "commit" /\ call[v].op = "delete_skill"
                /\ call[v].id = sid)
        /\ purge =>
              /\ \A i \in ReqIds : sid \notin skill_refs(requests[i])
              /\ \A v \in Workers :
                    ~(pc[v] = "commit" /\ call[v].op = "create"
                      /\ sid \in skill_refs(call[v]))
        /\ begin(w, c, NoRow, e, NoRow, "commit")
        /\ UNCHANGED next_id

\* conn.commit() of cursor_write after delete_skill has returned.
commit_skill(w) ==
    /\ pc[w] = "commit"
    /\ call[w].op = "delete_skill"
    /\ skills' = cursor_write_exit(FALSE, skills,
                    [skills EXCEPT ![call[w].id] =
                        IF call[w].purge THEN "absent" ELSE "inactive"])
    /\ last' = [call |-> call[w], req |-> NoRow, ret |-> NoRow,
                result |-> 204]
    /\ pc' = [pc EXCEPT ![w] = "idle"]
    /\ call' = [call EXCEPT ![w] = NoCall]
    /\ txn_now' = [txn_now EXCEPT ![w] = Null]
    /\ checked_out' = pool_exit(checked_out, "return")
    /\ UNCHANGED <<requests, next_id, lock, clock, ret, history, reviews,
                   review_seq, audit_log, audit_txn, pool_state>>

_collab_exists(cid) == _fetch(cid) # NoRow

\* The checks of create_review in the order of the code; 0 when all pass.
create_review_check(reviewer_id, reviewee_id, collab_request_id) ==
    IF reviewer_id = reviewee_id THEN 400
    ELSE IF ~_user_exists(reviewer_id) \/ ~_user_exists(reviewee_id) THEN 404
    ELSE IF collab_request_id # Null /\ ~_collab_exists(collab_request_id)
         THEN 404
    ELSE 0

\* create_review up to its INSERT.
create_review(w, reviewer_id, reviewee_id, collab_request_id) ==
    LET c == [op |-> "create_review", id |-> Null,
              reviewer_id |-> reviewer_id, reviewee_id |-> reviewee_id,
              collab_request_id |-> collab_request_id]
    IN  /\ review_seq \in ReviewIds
        /\ begin(w, c, NoRow,
                 create_review_check(reviewer_id, reviewee_id,
                                     collab_request_id),
                 NoRow, "insert_review")
        /\ UNCHANGED next_id

\* The INSERT ... RETURNING of create_review.
insert_review(w) ==
    /\ pc[w] = "insert_review"
    /\ review_seq' = review_seq + 1
    /\ ret' = [ret EXCEPT ![w] =
                  [id |-> review_seq, reviewer_id |-> call[w].reviewer_id,
                   reviewee_id |-> call[w].reviewee_id,
                   collab_request_id |-> call[w].collab_request_id,
                   created_at |-> txn_now[w]]]
    /\ call' = [call EXCEPT ![w].id = review_seq]
    /\ pc' = [pc EXCEPT ![w] = "audit"]
    /\ UNCHANGED <<requests, next_id, lock, clock, txn_now, last, history,
                   skills, reviews, audit_log, audit_txn, checked_out,
                   pool_state>>

\* log_event as create_review calls it: one INSERT INTO audit_log on the
\* handler's cursor, after which the handler returns the review.
log_event(w) ==
    /\ pc[w] = "audit"
    /\ audit_txn' = [audit_txn EXCEPT ![w] =
          Append(@, [actor_user_id |-> call[w].reviewer_id,
                     entity |-> "reviews", entity_id |-> ret[w].id,
                     action |-> "CREATE"])]
    /\ pc' = [pc EXCEPT ![w] = "commit"]
    /\ UNCHANGED <<requests, next_id, lock, clock, call, ret, txn_now, last,
                   history, skills, reviews, review_seq, audit_log,
                   checked_out, pool_state>>

\* conn.commit() of cursor_write after create_review has returned.
commit_review(w) ==
    /\ pc[w] = "commit"
    /\ call[w].op = "create_review"
    /\ reviews' = cursor_write_exit(FALSE, reviews, reviews \cup {ret[w]})
    /\ audit_log' = cursor_write_exit(FALSE, audit_log,
                                      audit_log \o audit_txn[w])
    /\ audit_txn' = [audit_txn EXCEPT ![w] = <<>>]
    /\ last' = [call |-> call[w], req |-> NoRow, ret |-> ret[w],
                result |-> 201]
    /\ pc' = [pc EXCEPT ![w] = "idle"]
    /\ call' = [call EXCEPT ![w] = NoCall]
    /\ ret' = [ret EXCEPT ![w] = NoRow]
    /\ txn_now' = [txn_now EXCEPT ![w] = Null]
    /\ checked_out' = pool_exit(checked_out, "return")
    /\ UNCHANGED <<requests, next_id, lock, clock, history, skills,
                   review_seq, pool_state>>

\* The tables as an open transaction of worker w has written them.
written_requests(w) ==
    IF call[w].op = "create" /\ pc[w] = "commit"
    THEN [requests EXCEPT ![call[w].id] = ret[w]] ELSE requests

written_reviews(w) ==
    IF call[w].op = "create_review" /\ pc[w] \in {"audit", "commit"}
    THEN reviews \cup {ret[w]} ELSE reviews

written_skills(w) ==
    IF call[w].op = "delete_skill" /\ pc[w] = "commit"
    THEN [skills EXCEPT ![call[w].id] =
             IF call[w].purge THEN "absent" ELSE "inactive"]
    ELSE skills

\* The storage fails worker w's open transaction: its next statement, or
\* conn.commit() once the handler has returned, raises.  cursor_write rolls
\* back and re-raises, and the call ends with 500.
storage_error(w) ==
    /\ pc[w] # "idle"
    /\ requests' = cursor_write_exit(TRUE, requests, written_requests(w))
    /\ reviews' = cursor_write_exit(TRUE, reviews, written_reviews(w))
    /\ skills' = cursor_write_exit(TRUE, skills, written_skills(w))
    /\ audit_log' = cursor_write_exit(TRUE, audit_log,
                                      audit_log \o audit_txn[w])
    /\ audit_txn' = [audit_txn EXCEPT ![w] = <<>>]
    /\ lock' = [i \in DOMAIN lock |-> IF lock[i] = w THEN "none" ELSE lock[i]]
    /\ last' = [call |-> call[w], req |-> NoRow, ret |-> ret[w],
                result |-> 500]
    /\ pc' = [pc EXCEPT ![w] = "idle"]
    /\ call' = [call EXCEPT ![w] = NoCall]
    /\ ret' = [ret EXCEPT ![w] = NoRow]
    /\ txn_now' = [txn_now EXCEPT ![w] = Null]
    /\ checked_out' = pool_exit(checked_out,
                          IF pc[w] = "commit" THEN "commit_failed"
                          ELSE "storage_error")
    /\ UNCHANGED <<next_id, clock, history, review_seq, pool_state>>

\* get_collab on cursor_readonly: one SELECT in autocommit, 404 when the row
\* is not there.
get_collab(w, request_id) ==
    LET r == _fetch(request_id) IN
    /\ pc[w] = "idle"
    /\ _pg_pool # Null
    /\ last' = [call |-> [op |-> "get", id |-> request_id], req |-> NoRow,
                ret |-> r, result |-> IF r = NoRow THEN 404 ELSE 200]
    /\ checked_out' = pool_exit(checked_out + 1,
                          IF r = NoRow THEN "http_error" ELSE "return")
    /\ UNCHANGED <<requests, next_id, lock, clock, pc, call, ret, txn_now,
                   history, others, pool_state>>

\* create_collab with skill ids against delete_skill.
CreateNext ==
    \E w \in Workers :
        \/ \E a \in Askers \cup Strangers, b \in Askers \cup Strangers,
              o \in {Null} \cup SkillIds, n \in {Null} \cup SkillIds :
              create_collab_checks(w, a, b, o, n, Null)
        \/ create_collab_insert(w)
        \/ \E s \in SkillIds, purge \in BOOLEAN : delete_skill(w, s, purge)
        \/ commit(w)
        \/ commit_skill(w)

CreateSpec == Init /\ [][CreateNext]_vars

\* A handler that writes the audit log, a read-only handler, and storage
\* that fails.
UowNext ==
    \E w \in Workers :
        \/ \E a \in Askers, b \in Askers, c \in {Null} \cup ReqIds :
              create_review(w, a, b, c)
        \/ insert_review(w)
        \/ log_event(w)
        \/ \E i \in ReqIds : get_collab(w, i)
        \/ commit_review(w)
        \/ storage_error(w)

UowSpec == Init /\ [][UowNext]_vars

\* ------------------------------------------------------ list_collabs
ListIds    == {1, 2, 3}          \* ids of the rows list_collabs runs over
ListTimes  == {1, 2}             \* created_at instants of those rows
ListStatus == {"PENDING", "ACCEPTED"}
Limits     == {1, 2}             \* limit values, within Query(ge=1, le=100)
Offsets    == {0, 1}             \* offset values, within Query(ge=0)

\* The WHERE clause with created_at <= until.
where_until_inclusive(r, user_id, status, since, until) ==
    /\ user_id # Null => (r.requester_id = user_id \/ r.receiver_id = user_id)
    /\ status # "NONE" => r.status = status
    /\ since # Null => r.created_at >= since
    /\ until # Null => r.created_at <= until

\* The WHERE clause list_collabs builds: one conjunct for every filter that
\* is not None.
where(r, user_id, status, since, until) ==
    /\ user_id # Null => (r.requester_id = user_id \/ r.receiver_id = user_id)
    /\ status # "NONE" => r.status = status
    /\ since # Null => r.created_at >= since
    /\ until # Null => r.created_at < until

\* FROM collab_requests c JOIN users ru ... JOIN users rv ... WHERE ...
selected(user_id, status, since, until) ==
    {r \in {requests[i] : i \in DOMAIN requests} :
        /\ r # NoRow
        /\ _user_exists(r.requester_id) /\ _user_exists(r.receiver_id)
        /\ where(r, user_id, status, since, until)}

\* ORDER BY created_at DESC: the orders the database may return the rows S
\* in; rows with equal created_at come in any order.
order_by_created_at_desc(S) ==
    {q \in [1..Cardinality(S) -> S] :
        /\ \A j, k \in 1..Cardinality(S) : j # k => q[j] # q[k]
        /\ \A j, k \in 1..Cardinality(S) :
              j < k => q[j].created_at >= q[k].created_at}

\* LIMIT %s OFFSET %s
limit_offset(q, limit, offset) ==
    SubSeq(q, offset + 1,
           IF offset + limit < Len(q) THEN offset + limit ELSE Len(q))

\* list_collabs on cursor_readonly: one SELECT in autocommit.
list_collabs(w, user_id, status, since, until, limit, offset) ==
    /\ pc[w] = "idle"
    /\ _pg_pool # Null
    /\ \E q \in order_by_created_at_desc(selected(user_id, status, since,
                                                   until)) :
          last' = [call |-> [op |-> "list", user_id |-> user_id,
                             status |-> status, since |-> since,
                             until |-> until, limit |-> limit,
                             offset |-> offset],
                   req |-> NoRow,
                   ret |-> limit_offset(q, limit, offset),
                   result |-> 200]
    /\ checked_out' = pool_exit(checked_out + 1, "return")
    /\ UNCHANGED <<requests, next_id, lock, clock, pc, call, ret, txn_now,
                   history, others, pool_state>>

\* A row of collab_requests between two of the users, created at time t.
listed_row(i, status, t) ==
    [id |-> i, requester_id |-> i, receiver_id |-> (i % 3) + 1,
     offered_skill_id |-> Null, wanted_skill_id |-> Null,
     message |-> Message,
     scheduled_at |-> Null, status |-> status,
     created_at |-> t, updated_at |-> t]

\* The application with up to three requests stored and no call in flight;
\* the request between users 2 and 3 is stored and PENDING.
ListInit ==
    /\ requests \in [ListIds ->
          {NoRow} \cup {listed_row(i, s, t) :
                           i \in ListIds, s \in ListStatus, t \in ListTimes}]
    /\ \A i \in ListIds : requests[i] # NoRow => requests[i].id = i
    /\ requests[2] # NoRow /\ requests[2].status = "PENDING"
    /\ next_id = 4
    /\ lock = [i \in ReqIds |-> "none"]
    /\ clock = 3
    /\ pc = [w \in Workers |-> "idle"]
    /\ call = [w \in Workers |-> NoCall]
    /\ ret = [w \in Workers |-> NoRow]
    /\ txn_now = [w \in Workers |-> Null]
    /\ last = NoLast
    /\ history = [i \in ReqIds |-> <<>>]
    /\ skills = [s \in SkillIds |-> "active"]
    /\ reviews = {}
    /\ review_seq = 1
    /\ audit_log = <<>>
    /\ audit_txn = [w \in Workers |-> <<>>]
    /\ checked_out = 0
    /\ _pg_pool = 1
    /\ pool_seq = 1

ListNext ==
    \E w \in Workers :
        \E u \in {Null, 1}, s \in {"NONE", "PENDING"},
           a \in {Null, 2}, b \in {Null, 2}, l \in Limits, o \in Offsets :
           list_collabs(w, u, s, a, b, l, o)

ListSpec == ListInit /\ [][ListNext]_vars

\* --------------------------------------------- a stored request, any status
\* A request that user 1 sent to user 2 some time ago and that has since gone
\* through the set_status calls hist.
stored_row(hist) ==
    [id |-> 1, requester_id |-> 1, receiver_id |-> 2,
     offered_skill_id |-> Null, wanted_skill_id |-> Null,
     message |-> Message,
     scheduled_at |-> Null,
     status |-> IF hist = <<>> THEN "PENDING" ELSE hist[Len(hist)],
     created_at |-> -3, updated_at |-> Len(hist) - 3]

\* The set_status calls that lead from PENDING to each status.
Lifecycles ==
    {<<>>, <<"ACCEPTED">>, <<"DECLINED">>, <<"CANCELLED">>,
     <<"ACCEPTED", "CANCELLED">>, <<"ACCEPTED", "COMPLETED">>}

\* The application some time after start-up: one request is stored, in any
\* status, and no call is in flight.
StoredInit ==
    /\ \E hist \in Lifecycles :
          /\ requests = [i \in ReqIds |-> stored_row(hist)]
          /\ history = [i \in ReqIds |-> hist]
    /\ next_id = 2
    /\ lock = [i \in ReqIds |-> "none"]
    /\ clock = 2
    /\ pc = [w \in Workers |-> "idle"]
    /\ call = [w \in Workers |-> NoCall]
    /\ ret = [w \in Workers |-> NoRow]
    /\ txn_now = [w \in Workers |-> Null]
    /\ last = NoLast
    /\ skills = [s \in SkillIds |-> "active"]
    /\ reviews = {}
    /\ review_seq = 1
    /\ audit_log = <<>>
    /\ audit_txn = [w \in Workers |-> <<>>]
    /\ checked_out = 0
    /\ _pg_pool = 1
    /\ pool_seq = 1

\* The calls on a stored request, with a reader and with storage that fails.
StoredNext ==
    \E w \in Workers :
        \/ \E i \in ReqIds, a \in Users, s \in ReqStatus :
              set_status(w, i, a, s)
        \/ \E i \in ReqIds, a \in Users, t \in SchedAts :
              reschedule(w, i, a, t)
        \/ \E i \in ReqIds, a \in Users :
              delete_collab(w, i, a)
        \/ \E i \in ReqIds : get_collab(w, i)
        \/ list_collabs(w, Null, "NONE", Null, Null, 1, 0)
        \/ write(w)
        \/ commit(w)
        \/ storage_error(w)

StoredSpec == StoredInit /\ [][StoredNext]_vars

\* ------------------------------------------------ two stored requests
PairIds == {1, 2}

\* Request i as it is stored after the status changes hist: user i asked
\* user i + 1.
pair_row(i, hist) ==
    [id |-> i, requester_id |-> i, receiver_id |-> i + 1,
     offered_skill_id |-> Null, wanted_skill_id |-> Null,
     message |-> Message,
     scheduled_at |-> Null,
     status |-> IF hist = <<>> THEN "PENDING" ELSE hist[Len(hist)],
     created_at |-> -3, updated_at |-> Len(hist) - 3]

\* The application with two requests stored and no call in flight.
PairInit ==
    /\ requests = [i \in PairIds |-> pair_row(i, <<>>)]
    /\ history = [i \in PairIds |-> <<>>]
    /\ next_id = 3
    /\ lock = [i \in PairIds |-> "none"]
    /\ clock = 2
    /\ pc = [w \in Workers |-> "idle"]
    /\ call = [w \in Workers |-> NoCall]
    /\ ret = [w \in Workers |-> NoRow]
    /\ txn_now = [w \in Workers |-> Null]
    /\ last = NoLast
    /\ skills = [s \in SkillIds |-> "active"]
    /\ reviews = {}
    /\ review_seq = 1
    /\ audit_log = <<>>
    /\ audit_txn = [w \in Workers |-> <<>>]
    /\ checked_out = 0
    /\ _pg_pool = 1
    /\ pool_seq = 1

PairNext ==
    \E w \in Workers :
        \/ \E i \in PairIds, a \in Askers, s \in {"ACCEPTED", "CANCELLED"} :
              set_status(w, i, a, s)
        \/ \E i \in PairIds, a \in Askers, t \in SchedAts :
              reschedule(w, i, a, t)
        \/ \E i \in PairIds, a \in Askers : delete_collab(w, i, a)
        \/ write(w)
        \/ commit(w)

PairSpec == PairInit /\ [][PairNext]_vars

\* Calls by user 2, a party of both requests, under fair scheduling.  A
\* handler that has passed its checks runs straight on to its statement and
\* then returns into conn.commit(), so an enabled commit is taken; a statement
\* that waits for a row lock sits in the lock's wait queue and is granted the
\* lock when its turn comes, so a write that keeps becoming enabled is taken.
WritersNext ==
    \E w \in Workers :
        \/ \E i \in PairIds : set_status(w, i, 2, "CANCELLED")
        \/ \E i \in PairIds, t \in SchedAts : reschedule(w, i, 2, t)
        \/ \E i \in PairIds : delete_collab(w, i, 2)
        \/ write(w)
        \/ commit(w)
        \/ storage_error(w)

FairSpec ==
    /\ PairInit /\ [][WritersNext]_vars
    /\ \A w \in Workers : WF_vars(commit(w)) /\ SF_vars(write(w))

\* ------------------------------------------------------------ db.py 10-55
PoolIds == {1, 2, 3}             \* the ConnectionPool objects, in order of creation

\* init_pool that builds a ConnectionPool on every call.
init_pool_always_new ==
    /\ pool_seq + 1 \in PoolIds
    /\ _pg_pool' = pool_seq + 1
    /\ pool_seq' = pool_seq + 1
    /\ last' = [call |-> [op |-> "init_pool"], req |-> NoRow, ret |-> NoRow,
                result |-> 0]
    /\ UNCHANGED <<requests, next_id, lock, clock, pc, call, ret, txn_now,
                   history, others, checked_out>>

\* init_pool with DATABASE_URL set: builds a ConnectionPool when _pg_pool is
\* None and leaves the one in place otherwise.
init_pool ==
    /\ _pg_pool = Null => pool_seq + 1 \in PoolIds
    /\ IF _pg_pool = Null
       THEN /\ _pg_pool' = pool_seq + 1
            /\ pool_seq' = pool_seq + 1
       ELSE UNCHANGED pool_state
    /\ last' = [call |-> [op |-> "init_pool"], req |-> NoRow, ret |-> NoRow,
                result |-> 0]
    /\ UNCHANGED <<requests, next_id, lock, clock, pc, call, ret, txn_now,
                   history, others, checked_out>>

\* close_pool, which main.py calls on shutdown, when no request is being
\* served any more.
close_pool ==
    /\ \A w \in Workers : pc[w] = "idle"
    /\ _pg_pool' = Null
    /\ last' = [call |-> [op |-> "close_pool"], req |-> NoRow, ret |-> NoRow,
                result |-> 0]
    /\ UNCHANGED <<requests, next_id, lock, clock, pc, call, ret, txn_now,
                   history, others, checked_out, pool_seq>>

\* cursor_readonly or cursor_write entered for a call of operation op while
\* _pg_pool is None: RuntimeError("DB pool not initialized") before a
\* connection is asked for; the handler does not run and the call ends with
\* 500.
pool_not_initialized(w, op) ==
    /\ pc[w] = "idle"
    /\ _pg_pool = Null
    /\ last' = [call |-> [op |-> op], req |-> NoRow, ret |-> NoRow,
                result |-> 500]
    /\ UNCHANGED <<requests, next_id, lock, clock, pc, call, ret, txn_now,
                   history, others, checked_out, pool_state>>

\* The process before on_startup, with one request in the database.
PoolInit ==
    /\ requests = [i \in ReqIds |-> stored_row(<<>>)]
    /\ history = [i \in ReqIds |-> <<>>]
    /\ next_id = 2
    /\ lock = [i \in ReqIds |-> "none"]
    /\ clock = 2
    /\ pc = [w \in Workers |-> "idle"]
    /\ call = [w \in Workers |-> NoCall]
    /\ ret = [w \in Workers |-> NoRow]
    /\ txn_now = [w \in Workers |-> Null]
    /\ last = NoLast
    /\ skills = [s \in SkillIds |-> "active"]
    /\ reviews = {}
    /\ review_seq = 1
    /\ audit_log = <<>>
    /\ audit_txn = [w \in Workers |-> <<>>]
    /\ checked_out = 0
    /\ _pg_pool = Null
    /\ pool_seq = 0

PoolNext ==
    \/ init_pool
    \/ close_pool
    \/ \E w \in Workers :
          \/ \E op \in {"get", "list", "set_status"} :
                pool_not_initialized(w, op)
          \/ \E i \in ReqIds : get_collab(w, i)
          \/ \E i \in ReqIds, a \in Askers, s \in {"ACCEPTED", "CANCELLED"} :
                set_status(w, i, a, s)
          \/ write(w)
          \/ commit(w)

PoolSpec == PoolInit /\ [][PoolNext]_vars

\* ------------------------------------------------------ _can_transition
\* The strings _can_transition is applied to: the five statuses and one that
\* ALLOWED_TRANSITIONS has no entry for.
StatusArgs == ReqStatus \cup {"ARCHIVED"}

\* Every worker is about to evaluate _can_transition on a pair of strings.
TransitionInit ==
    /\ call \in [Workers -> [op : {"_can_transition"}, old : StatusArgs,
                              new : StatusArgs]]
    /\ requests = [i \in ReqIds |-> NoRow]
    /\ history = [i \in ReqIds |-> <<>>]
    /\ next_id = 1
    /\ lock = [i \in ReqIds |-> "none"]
    /\ clock = 1
    /\ pc = [w \in Workers |-> "idle"]
    /\ ret = [w \in Workers |-> NoRow]
    /\ txn_now = [w \in Workers |-> Null]
    /\ last = NoLast
    /\ skills = [s \in SkillIds |-> "active"]
    /\ reviews = {}
    /\ review_seq = 1
    /\ audit_log = <<>>
    /\ audit_txn = [w \in Workers |-> <<>>]
    /\ checked_out = 0
    /\ _pg_pool = 1
    /\ pool_seq = 1

\* Worker w evaluates _can_transition(old, new) on its pair.
can_transition(w) ==
    /\ last' = [call |-> call[w], req |-> NoRow,
                ret |-> _can_transition(call[w].old, call[w].new),
                result |-> 0]
    /\ UNCHANGED <<requests, next_id, lock, clock, pc, call, ret, txn_now,
                   history, others, checked_out, pool_state>>

TransitionNext == \E w \in Workers : can_transition(w)

TransitionSpec == TransitionInit /\ [][TransitionNext]_vars

\* ------------------------------------------------------- reading a step
\* A call ended in this step with an HTTPException raised by a check; last'
\* describes it, and last'.req is the row it loaded in this state.
Failed == pc' = pc /\ last' # last

\* Worker w's call passed its checks in this step; call'[w] describes it and
\* requests[call'[w].id] is the row it loaded.
Passed(w) == pc[w] = "idle" /\ pc'[w] # "idle"

\* Worker w's transaction commits in this step and its call returns; call[w],
\* ret[w] and last' describe it.
Committed(w) == pc[w] = "commit" /\ pc'[w] = "idle"

\* Worker w's UPDATE or DELETE found the row: the row was not deleted between
\* the call's load and its write statement.
RowHeld(w) == lock[call[w].id] = w

Party(r, actor) == actor = r.requester_id \/ actor = r.receiver_id

Statuses(h) == {h[j] : j \in DOMAIN h}

\* ------------------------------------------------------------------ claims
\* C1: every change of a request's stored status follows an edge of the
\* table PENDING -> {ACCEPTED, DECLINED, CANCELLED}, ACCEPTED -> {CANCELLED,
\* COMPLETED}; a stored DECLINED, CANCELLED or COMPLETED never changes.
C1_StatusFollowsTable ==
    [][\A i \in ReqIds :
          (/\ requests[i] # NoRow
           /\ requests'[i] # NoRow
           /\ requests'[i].status # requests[i].status)
          => \/ /\ requests[i].status = "PENDING"
                /\ requests'[i].status \in {"ACCEPTED", "DECLINED", "CANCELLED"}
             \/ /\ requests[i].status = "ACCEPTED"
                /\ requests'[i].status \in {"CANCELLED", "COMPLETED"}]_vars

\* C2: of two set_status calls on one request that ask for different terminal
\* statuses only one succeeds: no request has two successful set_status calls
\* with different terminal statuses.
C2_OneTerminalWinner ==
    \A i \in ReqIds :
        \A j, k \in DOMAIN history[i] :
            (history[i][j] \in Terminal /\ history[i][k] \in Terminal)
            => history[i][j] = history[i][k]

\* C3: no double-accept: at most one set_status call with new_status ACCEPTED
\* returns success for a request.
C3_NoDoubleAccept ==
    \A i \in ReqIds :
        Cardinality({j \in DOMAIN history[i] : history[i][j] = "ACCEPTED"}) <= 1

\* C4: scheduled_at of a stored request changes only when a reschedule
\* commits, and only on a row whose committed status is PENDING or ACCEPTED.
C4_ScheduleFrozenWhenTerminal ==
    [][\A i \in ReqIds :
          (/\ requests[i] # NoRow
           /\ requests'[i] # NoRow
           /\ requests'[i].scheduled_at # requests[i].scheduled_at)
          => /\ requests[i].status \in {"PENDING", "ACCEPTED"}
             /\ \E w \in Workers :
                   Committed(w) /\ call[w].op = "reschedule" /\ call[w].id = i]_vars

\* C5: on an existing request, set_status, reschedule and delete_collab by an
\* actor who is neither its requester nor its receiver never pass their checks:
\* they end with 403 and leave the stored row as it was.
C5_ThirdPartyForbidden ==
    [][/\ \A w \in Workers :
            (Passed(w) /\ call'[w].op \in {"set_status", "reschedule", "delete"})
            => /\ requests[call'[w].id] # NoRow
               /\ Party(requests[call'[w].id], call'[w].actor)
       /\ (/\ Failed
           /\ last'.call.op \in {"set_status", "reschedule", "delete"}
           /\ last'.req # NoRow
           /\ ~Party(last'.req, last'.call.actor))
          => /\ last'.result = 403
             /\ requests' = requests
             /\ requests[last'.call.id] = last'.req]_vars

C5_Witness ==
    /\ last.call.op \in {"set_status", "reschedule", "delete"}
    /\ last.result = 403
    /\ last.req # NoRow
    /\ ~Party(last.req, last.call.actor)
    /\ requests[last.call.id] = last.req

\* C6: a stored status becomes ACCEPTED or DECLINED only when a set_status
\* call of the request's receiver commits; set_status to ACCEPTED or DECLINED
\* by the requester on a PENDING request ends with 403 and the status stays
\* PENDING.
C6_OnlyReceiverAcceptsOrDeclines ==
    [][/\ \A i \in ReqIds :
            (/\ requests'[i] # NoRow
             /\ requests'[i].status \in {"ACCEPTED", "DECLINED"}
             /\ requests[i] # requests'[i]
             /\ (requests[i] = NoRow
                   \/ requests[i].status # requests'[i].status))
            => \E w \in Workers :
                  /\ Committed(w)
                  /\ call[w].op = "set_status"
                  /\ call[w].id = i
                  /\ call[w].new_status = requests'[i].status
                  /\ call[w].actor = requests'[i].receiver_id
       /\ \A w \in Workers :
            (/\ Passed(w)
             /\ call'[w].op = "set_status"
             /\ call'[w].new_status \in {"ACCEPTED", "DECLINED"})
            => call'[w].actor = requests[call'[w].id].receiver_id
       /\ (/\ Failed
           /\ last'.call.op = "set_status"
           /\ last'.call.new_status \in {"ACCEPTED", "DECLINED"}
           /\ last'.req # NoRow
           /\ last'.req.status = "PENDING"
           /\ last'.call.actor = last'.req.requester_id)
          => /\ last'.result = 403
             /\ requests' = requests
             /\ requests[last'.call.id].status = "PENDING"]_vars

C6_Witness ==
    /\ last.call.op = "set_status"
    /\ last.call.new_status = "ACCEPTED"
    /\ last.req # NoRow
    /\ last.req.status = "PENDING"
    /\ last.call.actor = last.req.requester_id
    /\ last.result = 403
    /\ requests[last.call.id].status = "PENDING"

\* C7: set_status to COMPLETED by a party passes its checks exactly when the
\* status it loads is ACCEPTED; from any other status (PENDING too) it ends
\* with 409 and the row unchanged; a call that passed, whose row is still
\* there when its UPDATE runs, commits COMPLETED and returns that row; and
\* every stored COMPLETED follows a successful set_status to ACCEPTED.
C7_CompleteOnlyFromAccepted ==
    [][/\ \A w \in Workers :
            (/\ Passed(w)
             /\ call'[w].op = "set_status"
             /\ call'[w].new_status = "COMPLETED")
            => requests[call'[w].id].status = "ACCEPTED"
       /\ (/\ Failed
           /\ last'.call.op = "set_status"
           /\ last'.call.new_status = "COMPLETED"
           /\ last'.req # NoRow
           /\ Party(last'.req, last'.call.actor))
          => /\ last'.req.status # "ACCEPTED"
             /\ last'.result = 409
             /\ requests' = requests
       /\ \A w \in Workers :
            (/\ Committed(w)
             /\ call[w].op = "set_status"
             /\ call[w].new_status = "COMPLETED"
             /\ RowHeld(w))
            => /\ last'.result = 200
               /\ last'.ret = requests'[call[w].id]
               /\ requests'[call[w].id].status = "COMPLETED"
       /\ \A i \in ReqIds :
            (requests'[i] # NoRow /\ requests'[i].status = "COMPLETED")
            => "ACCEPTED" \in Statuses(history'[i])]_vars

C7_Witness ==
    /\ last.call.op = "set_status"
    /\ last.call.new_status = "COMPLETED"
    /\ last.result = 200
    /\ last.ret.status = "COMPLETED"
    /\ last.call.actor = last.ret.requester_id
    /\ requests[last.call.id] = last.ret
    /\ history[last.call.id] = <<"ACCEPTED", "COMPLETED">>

\* C8: set_status to CANCELLED by the requester or the receiver passes its
\* checks when the status it loads is PENDING or ACCEPTED and, the row still
\* being there when its UPDATE runs, commits CANCELLED and returns that row;
\* when the status it loads is DECLINED, CANCELLED or COMPLETED it ends with
\* 409.
C8_CancelByEitherParty ==
    [][/\ \A w \in Workers :
            (/\ Passed(w)
             /\ call'[w].op = "set_status"
             /\ call'[w].new_status = "CANCELLED")
            => requests[call'[w].id].status \in {"PENDING", "ACCEPTED"}
       /\ (/\ Failed
           /\ last'.call.op = "set_status"
           /\ last'.call.new_status = "CANCELLED"
           /\ last'.req # NoRow
           /\ Party(last'.req, last'.call.actor))
          => /\ last'.req.status \in Terminal
             /\ last'.result = 409
             /\ requests' = requests
       /\ \A w \in Workers :
            (/\ Committed(w)
             /\ call[w].op = "set_status"
             /\ call[w].new_status = "CANCELLED"
             /\ RowHeld(w))
            => /\ last'.result = 200
               /\ last'.ret = requests'[call[w].id]
               /\ requests'[call[w].id].status = "CANCELLED"]_vars

C8_Witness ==
    /\ last.call.op = "set_status"
    /\ last.call.new_status = "CANCELLED"
    /\ last.result = 200
    /\ last.call.actor = last.ret.receiver_id
    /\ requests[last.call.id] = last.ret
    /\ requests[last.call.id].status = "CANCELLED"
    /\ history[last.call.id] = <<"ACCEPTED", "CANCELLED">>

\* C9: reschedule by a party passes its checks when the status it loads is
\* PENDING or ACCEPTED and, the row still being there when its UPDATE runs,
\* commits the given scheduled_at and leaves the status as it finds it; when
\* the status it loads is DECLINED, CANCELLED or COMPLETED it ends with 409 and
\* the row, with its scheduled_at and updated_at, is unchanged.
C9_RescheduleOnlyWhenOpen ==
    [][/\ \A w \in Workers :
            (Passed(w) /\ call'[w].op = "reschedule")
            => requests[call'[w].id].status \in {"PENDING", "ACCEPTED"}
       /\ (/\ Failed
           /\ last'.call.op = "reschedule"
           /\ last'.req # NoRow
           /\ Party(last'.req, last'.call.actor))
          => /\ last'.req.status \in Terminal
             /\ last'.result = 409
             /\ requests' = requests
       /\ \A w \in Workers :
            (/\ Committed(w)
             /\ call[w].op = "reschedule"
             /\ RowHeld(w))
            => /\ last'.result = 200
               /\ last'.ret = requests'[call[w].id]
               /\ requests'[call[w].id].scheduled_at = call[w].scheduled_at
               /\ requests'[call[w].id].status = requests[call[w].id].status]_vars

C9_Witness ==
    /\ last.call.op = "reschedule"
    /\ last.result = 409
    /\ last.req # NoRow
    /\ last.req.status = "DECLINED"
    /\ Party(last.req, last.call.actor)
    /\ last.call.scheduled_at # last.req.scheduled_at
    /\ requests[last.call.id] = last.req

\* C10: set_status by a party with new_status equal to the status it loads
\* never passes its checks: it ends with 409 and the status stays (ACCEPTED
\* again on an ACCEPTED request, by requester or receiver).
C10_SameStatusIsConflict ==
    [][/\ \A w \in Workers :
            (Passed(w) /\ call'[w].op = "set_status")
            => call'[w].new_status # requests[call'[w].id].status
       /\ (/\ Failed
           /\ last'.call.op = "set_status"
           /\ last'.req # NoRow
           /\ Party(last'.req, last'.call.actor)
           /\ last'.call.new_status = last'.req.status)
          => /\ last'.result = 409
             /\ requests' = requests
             /\ requests[last'.call.id].status = last'.call.new_status]_vars

C10_Witness ==
    /\ last.call.op = "set_status"
    /\ last.call.new_status = "ACCEPTED"
    /\ last.result = 409
    /\ last.req # NoRow
    /\ last.req.status = "ACCEPTED"
    /\ last.call.actor = last.req.requester_id
    /\ requests[last.call.id].status = "ACCEPTED"
    /\ history[last.call.id] = <<"ACCEPTED">>

\* C11 (as stated): a set_status call that the state refuses with 409 as an
\* illegal transition is refused with 409 again after every step in which no
\* set_status call returned an updated row, so a repeat of the identical
\* call fails with Conflict every time.
C11_RepeatAlwaysConflict ==
    [][\A i \in ReqIds, a \in Users, s \in ReqStatus :
          (/\ set_status_check(requests[i], a, s) = 409
           /\ history' = history)
          => set_status_check(requests'[i], a, s) = 409]_vars

\* C11 (amended): a set_status call that the state refuses with 409 as an
\* illegal transition is, after every step in which no set_status call
\* returned an updated row, refused with 409 again, or with 404 because the
\* request has been deleted; a call the state refuses never passes its checks
\* and ends with that code, leaving the table as it was.
C11_RepeatNeverSucceeds ==
    [][/\ \A i \in ReqIds, a \in Users, s \in ReqStatus :
            (/\ set_status_check(requests[i], a, s) = 409
             /\ history' = history)
            => \/ /\ requests'[i] # NoRow
                  /\ set_status_check(requests'[i], a, s) = 409
               \/ /\ requests'[i] = NoRow
                  /\ set_status_check(requests'[i], a, s) = 404
       /\ \A w \in Workers :
            (Passed(w) /\ call'[w].op = "set_status")
            => set_status_check(requests[call'[w].id], call'[w].actor,
                                call'[w].new_status) = 0
       /\ (Failed /\ last'.call.op = "set_status")
            => /\ last'.result =
                    set_status_check(requests[last'.call.id],
                                     last'.call.actor, last'.call.new_status)
               /\ last'.result # 0
               /\ requests' = requests
      ]_vars

\* A refused set_status call has just ended with 409 on a request that has
\* been rescheduled since its creation, and the state still refuses it.
C11_Witness ==
    /\ last.call.op = "set_status"
    /\ last.result = 409
    /\ requests[last.call.id] # NoRow
    /\ requests[last.call.id].updated_at # requests[last.call.id].created_at
    /\ set_status_check(requests[last.call.id], last.call.actor,
                        last.call.new_status) = 409

\* C12: every committed creation, status change and schedule change of a
\* request comes with exactly one audit_log row for entity "collab_requests"
\* and the request's id, committed by the same transaction.
C12_MutationsAudited ==
    [][\A i \in ReqIds :
          (requests'[i] # requests[i] /\ requests'[i] # NoRow)
          => /\ Len(audit_log') = Len(audit_log) + 1
             /\ SubSeq(audit_log', 1, Len(audit_log)) = audit_log
             /\ audit_log'[Len(audit_log')].entity = "collab_requests"
             /\ audit_log'[Len(audit_log')].entity_id = i]_vars

\* Worker w's call, which had passed its checks, ends in this step; last'
\* describes it.
Ended(w) == pc[w] # "idle" /\ pc'[w] = "idle"

\* C13: in a write unit of work the writes of a call become visible only by
\* the commit that follows the success of every step: a call that ends with
\* an error, at whatever step it was raised, leaves every committed table as
\* it was, and a review becomes visible only together with the audit_log row
\* that create_review inserts after it.
C13_CommitOnlyIfEveryStepSucceeds ==
    [][/\ \A w \in Workers :
            (Ended(w) /\ last'.result >= 400)
            => /\ requests' = requests
               /\ reviews' = reviews
               /\ audit_log' = audit_log
               /\ skills' = skills
       /\ (reviews' # reviews \/ audit_log' # audit_log)
            => \E w \in Workers :
                  /\ Ended(w)
                  /\ last'.result = 201
                  /\ call[w].op = "create_review"
                  /\ reviews' = reviews \cup {ret[w]}
                  /\ audit_log' =
                        Append(audit_log,
                               [actor_user_id |-> call[w].reviewer_id,
                                entity |-> "reviews",
                                entity_id |-> ret[w].id,
                                action |-> "CREATE"])
      ]_vars

\* A create_review call has ended with 500 after its INSERT INTO reviews had
\* run, and the review it had inserted is not in the table.
C13_Witness ==
    /\ last.call.op = "create_review"
    /\ last.result = 500
    /\ last.ret # NoRow
    /\ last.ret \notin reviews
    /\ \A k \in DOMAIN audit_log : audit_log[k].entity_id # last.ret.id

\* C14: the connections out of the pool are exactly those of the calls in
\* flight, whichever way earlier calls ended (return, HTTPException, storage
\* error, failed commit); when every call has completed, none is out.
C14_ConnectionsReturned ==
    /\ checked_out = Cardinality({w \in Workers : pc[w] # "idle"})
    /\ (\A w \in Workers : pc[w] = "idle") => checked_out = 0

\* Every call has completed, one review was committed and a later
\* create_review ended with a storage error after its INSERT; no connection
\* is out.
C14_Witness ==
    /\ \A w \in Workers : pc[w] = "idle"
    /\ checked_out = 0
    /\ reviews # {}
    /\ last.call.op = "create_review"
    /\ last.result = 500
    /\ last.ret # NoRow

\* C15: a create_collab, set_status, reschedule or delete_collab call that
\* ends with an error ends with 400, 403, 404 or 409 and leaves the table
\* collab_requests exactly as it was; the table changes only in the step in
\* which a call commits and returns its success code.
C15_ErrorsChangeNothing ==
    [][/\ Failed
            => /\ last'.call.op \in {"create", "set_status", "reschedule",
                                     "delete"}
               /\ last'.result \in {400, 403, 404, 409}
               /\ requests' = requests
       /\ \A w \in Workers :
            Committed(w) => last'.result = success_code(call[w].op)
       /\ requests' # requests
            => \E w \in Workers :
                  Committed(w) /\ last'.result \in {200, 201, 204}
      ]_vars

\* A delete_collab by a user who is no party has just ended with 403 and the
\* request it named is stored, ACCEPTED and rescheduled, as before.
C15_Witness ==
    /\ last.call.op = "delete"
    /\ last.result = 403
    /\ last.req # NoRow
    /\ requests[last.call.id] = last.req
    /\ last.req.status = "ACCEPTED"
    /\ last.req.scheduled_at # Null

\* C16: updated_at of a stored request never decreases, and every committed
\* set_status or reschedule on it moves it strictly forward, also when the
\* transactions on the request commit in another order than they started.
C16_UpdatedAtAdvances ==
    [][\A i \in ReqIds :
          (requests[i] # NoRow /\ requests'[i] # NoRow)
          => /\ requests'[i].updated_at >= requests[i].updated_at
             /\ requests'[i] # requests[i]
                  => requests'[i].updated_at > requests[i].updated_at]_vars

\* C17: create_collab with requester_id equal to receiver_id ends with 400 at
\* its first check, whether or not the user and the skills it names exist,
\* without opening a transaction or taking an id, and inserts nothing; every
\* stored request and every row an open transaction has inserted has
\* requester_id different from receiver_id.
C17_NeverSelfDirected ==
    [][/\ \A w \in Workers :
            (pc[w] = "idle" /\ pc'[w] = "insert")
            => call'[w].requester_id # call'[w].receiver_id
       /\ (Failed /\ last'.call.op = "create"
                  /\ last'.call.requester_id = last'.call.receiver_id)
            => /\ last'.result = 400
               /\ UNCHANGED <<requests, next_id, clock, txn_now>>
       /\ \A i \in ReqIds :
            requests'[i] # NoRow
            => requests'[i].requester_id # requests'[i].receiver_id
       /\ \A w \in Workers :
            (call'[w].op = "create" /\ ret'[w] # NoRow)
            => ret'[w].requester_id # ret'[w].receiver_id
      ]_vars

\* A create_collab naming the same unknown user as requester and receiver,
\* and a skill that has been deleted, has just ended with 400.
C17_Witness ==
    /\ last.call.op = "create"
    /\ last.result = 400
    /\ last.call.requester_id = last.call.receiver_id
    /\ last.call.requester_id \in Strangers
    /\ last.call.offered_skill_id # Null
    /\ ~_skill_exists(last.call.offered_skill_id)

\* A user or a non-null skill id that payload p names has no row.
Missing(p) ==
    \/ p.requester_id \notin Users
    \/ p.receiver_id \notin Users
    \/ p.offered_skill_id # Null /\ skills[p.offered_skill_id] = "absent"
    \/ p.wanted_skill_id # Null /\ skills[p.wanted_skill_id] = "absent"

\* C18: a create_collab between two different users ends with 404 at its
\* checks, taking no id and inserting nothing, exactly when the requester,
\* the receiver, a non-null offered_skill_id or a non-null wanted_skill_id
\* has no row at that moment; a null skill id is never missing; and a call
\* goes on to its INSERT only if nothing it names was missing when checked.
C18_MissingReferenceIsNotFound ==
    [][/\ (Failed /\ last'.call.op = "create"
                  /\ last'.call.requester_id # last'.call.receiver_id)
            => /\ Missing(last'.call)
               /\ last'.result = 404
               /\ UNCHANGED <<requests, next_id>>
       /\ \A w \in Workers :
            (pc[w] = "idle" /\ pc'[w] = "insert") => ~Missing(call'[w])
       /\ \A i \in ReqIds :
            (requests[i] = NoRow /\ requests'[i] # NoRow)
            => \E w \in Workers :
                  /\ Committed(w)
                  /\ call[w].op = "create"
                  /\ requests'[i] = ret[w]
                  /\ requests'[i].requester_id \in Users
                  /\ requests'[i].receiver_id \in Users
      ]_vars

\* A create_collab between two users that exist, with no offered skill and a
\* wanted skill that has been deleted, has just ended with 404, and a request
\* created without skill ids is stored.
C18_Witness ==
    /\ last.call.op = "create"
    /\ last.result = 404
    /\ last.call.requester_id \in Users
    /\ last.call.receiver_id \in Users
    /\ last.call.offered_skill_id = Null
    /\ last.call.wanted_skill_id # Null
    /\ skills[last.call.wanted_skill_id] = "absent"
    /\ \E i \in ReqIds :
          /\ requests[i] # NoRow
          /\ skill_refs(requests[i]) = {}

\* C19: the payload of create_collab carries no status, the row its INSERT
\* writes has the initial status, and the request a successful create_collab
\* returns, which is the row it stores, has status PENDING whatever users
\* and skills the payload names.
C19_CreatedPending ==
    [][\A w \in Workers :
          /\ (pc[w] = "idle" /\ pc'[w] = "insert")
               => "status" \notin DOMAIN call'[w]
          /\ (pc[w] = "insert" /\ pc'[w] = "commit")
               => ret'[w].status = "PENDING"
          /\ (Committed(w) /\ call[w].op = "create")
               => /\ last'.result = 201
                  /\ last'.ret.status = "PENDING"
                  /\ requests'[call[w].id] = last'.ret
      ]_vars

\* A create_collab that named an offered and a wanted skill has just returned
\* 201 with the request it stored, which is PENDING.
C19_Witness ==
    /\ last.call.op = "create"
    /\ last.result = 201
    /\ last.ret # NoRow
    /\ last.ret.status = "PENDING"
    /\ last.ret.offered_skill_id # Null
    /\ last.ret.wanted_skill_id # Null
    /\ requests[last.ret.id] = last.ret

\* C20: a create_collab whose referenced skill is deleted by a concurrent
\* transaction after its checks and before its INSERT ends with the error the
\* skill checks would have raised had they run at the INSERT (404), and
\* stores no request.
C20_RaceEndsLikePreCheck ==
    [][\A w \in Workers :
          (pc[w] = "insert" /\ pc'[w] = "idle")
          => /\ last'.result =
                  create_skills_check(call[w].offered_skill_id,
                                      call[w].wanted_skill_id)
             /\ requests' = requests]_vars

\* C21: delete_collab by the requester or the receiver passes its checks in
\* every status and its commit returns 204 with the row gone; once a request
\* is gone it stays gone, and get_collab, set_status, reschedule and
\* delete_collab that find it gone end with 404.
C21_DeleteIsFinal ==
    [][/\ (Failed /\ last'.call.op = "delete")
            => \/ requests[last'.call.id] = NoRow /\ last'.result = 404
               \/ /\ requests[last'.call.id] # NoRow
                  /\ ~Party(requests[last'.call.id], last'.call.actor)
                  /\ last'.result = 403
       /\ \A w \in Workers :
            (Committed(w) /\ call[w].op = "delete" /\ last'.result = 204)
            => requests'[call[w].id] = NoRow
       /\ \A i \in ReqIds : requests[i] = NoRow => requests'[i] = NoRow
       /\ \A w \in Workers :
            Passed(w) => requests[call'[w].id] # NoRow
       /\ (Failed /\ last'.call.op \in {"get", "set_status", "reschedule",
                                       "delete"}
                  /\ requests[last'.call.id] = NoRow)
            => last'.result = 404 /\ last'.ret = NoRow
      ]_vars

\* A request that had been COMPLETED has been deleted, and the get_collab
\* that followed has ended with 404.
C21_Witness ==
    /\ \E i \in ReqIds :
          /\ requests[i] = NoRow
          /\ "COMPLETED" \in Statuses(history[i])
          /\ last.call.id = i
    /\ last.call.op = "get"
    /\ last.result = 404

\* C22: list_collabs returns exactly the stored requests that satisfy every
\* filter that was given (user_id is the requester or the receiver, status
\* is equal, created_at >= since, created_at < until), newest created_at
\* first, without the first offset of them and at most limit of them; and it
\* changes nothing that is stored.
C22_ListIsFilteredPage ==
    [][(last' # last /\ last'.call.op = "list") =>
        LET c   == last'.call
            res == last'.ret
            M   == {r \in {requests[i] : i \in DOMAIN requests} :
                      /\ r # NoRow
                      /\ c.user_id # Null =>
                           (r.requester_id = c.user_id \/ r.receiver_id = c.user_id)
                      /\ c.status # "NONE" => r.status = c.status
                      /\ c.since # Null => r.created_at >= c.since
                      /\ c.until # Null => r.created_at < c.until}
            rest == IF Cardinality(M) > c.offset
                    THEN Cardinality(M) - c.offset ELSE 0
        IN  /\ UNCHANGED <<requests, next_id, lock, history, others>>
            /\ last'.result = 200
            /\ \A k \in 1..Len(res) : res[k] \in M
            /\ \A j, k \in 1..Len(res) : j # k => res[j] # res[k]
            /\ Len(res) = IF rest < c.limit THEN rest ELSE c.limit
            /\ \A k \in 1..Len(res) :
                 /\ Cardinality({r \in M : r.created_at > res[k].created_at})
                      <= c.offset + k - 1
                 /\ Cardinality({r \in M : r.created_at >= res[k].created_at})
                      >= c.offset + k]_vars

\* A page of one row was listed with every filter given: a newer matching
\* row was skipped by the offset and a row outside the filters was left out.
C22_Witness ==
    /\ last.call.op = "list"
    /\ last.call.user_id = 1 /\ last.call.status = "PENDING"
    /\ last.call.since = 2 /\ last.call.until = Null
    /\ last.call.offset = 1 /\ last.call.limit = 1
    /\ Len(last.ret) = 1
    /\ requests[2] # NoRow
    /\ requests[1] # NoRow /\ requests[3] # NoRow
    /\ requests[1].created_at = 2 /\ requests[3].created_at = 2

\* C23: requests with different ids are independent.  A step of a call on
\* request A leaves the row, the row lock and the status history of every
\* other request as they are; the UPDATE or DELETE of a call on A can run
\* whenever no open transaction of another call is on A, whatever is open on
\* other requests; and what the call answers is fixed by A's row and the
\* call's arguments: 404 exactly when A has no row, and on commit A's row with
\* the one value the call set and the transaction's time.
C23_RequestsIndependent ==
    [][/\ \A w \in Workers :
            pc'[w] # pc[w] =>
              LET A == IF pc[w] = "idle" THEN call'[w].id ELSE call[w].id IN
                /\ \A B \in DOMAIN requests \ {A} :
                      /\ requests'[B] = requests[B]
                      /\ lock'[B] = lock[B]
                      /\ history'[B] = history[B]
                /\ (Committed(w) /\ requests[A] # NoRow /\ lock[A] = w) =>
                      /\ call[w].op = "set_status" =>
                           /\ requests'[A] =
                                [requests[A] EXCEPT
                                    !.status = call[w].new_status,
                                    !.updated_at = txn_now[w]]
                           /\ last'.ret = requests'[A]
                      /\ call[w].op = "reschedule" =>
                           /\ requests'[A] =
                                [requests[A] EXCEPT
                                    !.scheduled_at = call[w].scheduled_at,
                                    !.updated_at = txn_now[w]]
                           /\ last'.ret = requests'[A]
                      /\ call[w].op = "delete" => requests'[A] = NoRow
       /\ Failed =>
            /\ UNCHANGED <<requests, lock, history>>
            /\ last'.result = 404 <=> requests[last'.call.id] = NoRow
       /\ \A w \in Workers :
            (/\ pc[w] = "write"
             /\ \A v \in Workers \ {w} :
                  pc[v] # "idle" => call[v].id # call[w].id)
            => ENABLED write(w)]_vars

\* A set_status on request 1 began and committed inside the other worker's
\* transaction on request 2, which now holds the row of request 2; request 2
\* is as it was stored.
C23_Witness ==
    /\ last.call.op = "set_status" /\ last.call.id = 1 /\ last.result = 200
    /\ requests[1] # NoRow /\ requests[1].status = "ACCEPTED"
    /\ \E v \in Workers :
          /\ lock[2] = v /\ call[v].id = 2 /\ pc[v] = "commit"
          /\ txn_now[v] < requests[1].updated_at
    /\ requests[2] = pair_row(2, <<>>)

\* C24: a reader sees only committed row versions.  Whatever get_collab or
\* list_collabs returns for a request is the row as the last commit left it,
\* also while an open transaction holds the row with a new version written;
\* a commit stores status, scheduled_at and updated_at of one UPDATE
\* together, so a changed status or scheduled_at never comes with the old
\* updated_at; and a transaction that rolls back leaves every row as it was,
\* so nothing it wrote is ever read.
C24_ReadersSeeCommittedRows ==
    [][/\ (last' # last /\ last'.call.op = "get") =>
            /\ last'.ret = requests[last'.call.id]
            /\ UNCHANGED requests
            /\ \A v \in Workers :
                 (pc[v] = "commit" /\ lock[last'.call.id] = v /\ ret[v] # NoRow)
                 => /\ last'.ret # ret[v]
                    /\ last'.ret.updated_at # ret[v].updated_at
       /\ (last' # last /\ last'.call.op = "list") =>
            /\ UNCHANGED requests
            /\ \A k \in 1..Len(last'.ret) :
                 last'.ret[k] = requests[last'.ret[k].id]
       /\ \A i \in ReqIds :
            (requests[i] # NoRow /\ requests'[i] # NoRow
             /\ requests'[i] # requests[i])
            => /\ requests'[i].updated_at # requests[i].updated_at
               /\ \E w \in Workers :
                    /\ Committed(w) /\ last'.result = 200
                    /\ requests'[i] = ret[w]
                    /\ requests'[i].updated_at = txn_now[w]
       /\ \A w \in Workers :
            (pc[w] # "idle" /\ pc'[w] = "idle" /\ last'.result = 500)
            => UNCHANGED requests]_vars

\* get_collab returned the PENDING row while a transaction that had already
\* written ACCEPTED to it was still open.
C24_Witness ==
    /\ last.call.op = "get" /\ last.result = 200
    /\ last.ret.status = "PENDING"
    /\ \E v \in Workers :
          /\ pc[v] = "commit" /\ lock[1] = v
          /\ ret[v] # NoRow /\ ret[v].status = "ACCEPTED"
    /\ requests[1] = last.ret

\* C25: once a request is stored, no step changes its id, requester_id,
\* receiver_id, offered_skill_id, wanted_skill_id, message or created_at; a
\* committing set_status changes nothing but status and updated_at, and a
\* committing reschedule nothing but scheduled_at and updated_at.
C25_CreationFieldsImmutable ==
    [][/\ \A i \in ReqIds :
            (requests[i] # NoRow /\ requests'[i] # NoRow) =>
               /\ requests'[i].id = requests[i].id
               /\ requests'[i].requester_id = requests[i].requester_id
               /\ requests'[i].receiver_id = requests[i].receiver_id
               /\ requests'[i].offered_skill_id = requests[i].offered_skill_id
               /\ requests'[i].wanted_skill_id = requests[i].wanted_skill_id
               /\ requests'[i].message = requests[i].message
               /\ requests'[i].created_at = requests[i].created_at
       /\ \A w \in Workers :
            (Committed(w) /\ requests'[call[w].id] # NoRow) =>
               /\ call[w].op = "set_status" =>
                    requests'[call[w].id].scheduled_at
                        = requests[call[w].id].scheduled_at
               /\ call[w].op = "reschedule" =>
                    requests'[call[w].id].status = requests[call[w].id].status
               /\ last'.ret = requests'[call[w].id]]_vars

\* A request has been created, accepted and rescheduled, and still carries
\* the message and the creation time it was stored with.
C25_Witness ==
    /\ last.call.op = "reschedule" /\ last.result = 200
    /\ requests[1] # NoRow
    /\ requests[1].status = "ACCEPTED"
    /\ requests[1].scheduled_at = 1
    /\ requests[1].message = Message
    /\ requests[1].updated_at > requests[1].created_at

\* C26: set_status reports the first check that fails, in this order: no
\* such request (404), actor not a party (403), transition not in the table
\* (409), accept or decline by someone other than the receiver (403),
\* complete from a status other than ACCEPTED (409).  So a non-party asking
\* for an illegal transition gets 403, a requester asking for ACCEPTED or
\* DECLINED on a request that is not PENDING gets 409, and a call goes on to
\* its UPDATE only when no check fails.
C26_FirstFailingCheck ==
    [][/\ (Failed /\ last'.call.op = "set_status") =>
            LET r     == requests[last'.call.id]
                actor == last'.call.actor
                new   == last'.call.new_status
                legal == r.status \in DOMAIN ALLOWED_TRANSITIONS
                         /\ new \in ALLOWED_TRANSITIONS[r.status]
            IN  IF r = NoRow THEN last'.result = 404
                ELSE IF ~Party(r, actor) THEN last'.result = 403
                ELSE IF ~legal THEN last'.result = 409
                ELSE IF new \in {"ACCEPTED", "DECLINED"}
                        /\ actor # r.receiver_id THEN last'.result = 403
                ELSE new = "COMPLETED" /\ r.status # "ACCEPTED"
                     /\ last'.result = 409
       /\ \A w \in Workers :
            (Passed(w) /\ call'[w].op = "set_status") =>
               LET r == requests[call'[w].id] IN
                 /\ r # NoRow
                 /\ Party(r, call'[w].actor)
                 /\ call'[w].new_status \in ALLOWED_TRANSITIONS[r.status]
                 /\ call'[w].new_status \in {"ACCEPTED", "DECLINED"}
                      => call'[w].actor = r.receiver_id]_vars

\* The requester asked for ACCEPTED on a request that was already ACCEPTED
\* and got 409; the request is still stored.
C26_Witness ==
    /\ last.call.op = "set_status" /\ last.result = 409
    /\ last.call.actor = 1 /\ last.call.new_status = "ACCEPTED"
    /\ last.req # NoRow /\ last.req.status = "ACCEPTED"
    /\ last.req.requester_id = 1

\* C27: a set_status or reschedule that returns normally and commits still
\* has its request stored at commit and returns that row with the requested
\* status (resp. scheduled_at); a call whose request was deleted between its
\* load and its UPDATE ends with 404 instead of returning normally.
C27_SuccessMeansRowUpdated ==
    [][\A w \in Workers :
          (Ended(w) /\ call[w].op \in {"set_status", "reschedule"}) =>
             /\ last'.result = 200 =>
                  /\ requests'[call[w].id] # NoRow
                  /\ last'.ret = requests'[call[w].id]
                  /\ call[w].op = "set_status"
                       => last'.ret.status = call[w].new_status
                  /\ call[w].op = "reschedule"
                       => last'.ret.scheduled_at = call[w].scheduled_at
             /\ (Committed(w) /\ lock[call[w].id] # w)
                  => last'.result = 404]_vars

\* C28: under fair scheduling every set_status, reschedule or delete_collab
\* that has passed its checks ends, with commit or rollback; a call's
\* transaction holds the lock of at most one request row, that of the request
\* it names; and a writer whose row is not locked can run its statement, so a
\* blocked writer goes on once the lock holder is done and no set of calls
\* waits for each other.
C28_WritersFinish ==
    /\ \A w \in Workers : (pc[w] # "idle") ~> (pc[w] = "idle")
    /\ [](\A w \in Workers :
            /\ \A i \in DOMAIN lock :
                 lock[i] = w => pc[w] = "commit" /\ call[w].id = i
            /\ (pc[w] = "write" /\ lock[call[w].id] = "none")
                 => ENABLED write(w)
            /\ pc[w] = "commit" => ENABLED commit(w))

\* Worker w's statement had to wait for the row lock of a call that started
\* after w's and committed first; w now holds the lock itself.
C28_Witness ==
    \E w \in Workers :
        /\ pc[w] = "commit" /\ lock[1] = w
        /\ last.call.id = 1 /\ last.result = 200
        /\ last.ret # NoRow /\ last.ret.updated_at > txn_now[w]

\* C29: the pool's life cycle.  A call gets a cursor, and so reads or writes
\* or has a check fail, only while _pg_pool names a pool; while it is None --
\* before init_pool, after close_pool -- every call ends with the
\* RuntimeError's 500 and nothing stored, no connection count and no call in
\* flight changes; init_pool leaves an existing pool in place and otherwise
\* builds one that never existed before, also after a close_pool; close_pool
\* leaves _pg_pool None, whether or not there was a pool; nothing else
\* changes _pg_pool.
C29_PoolLifecycle ==
    [][LET op     == last'.call.op
           served == last' # last /\ op \notin {"init_pool", "close_pool"}
       IN
       /\ (\E w \in Workers : pc'[w] # pc[w]) => _pg_pool # Null
       /\ (served /\ last'.result # 500) => _pg_pool # Null
       /\ (served /\ _pg_pool = Null) =>
             /\ last'.result = 500
             /\ last'.ret = NoRow
             /\ UNCHANGED <<requests, next_id, lock, clock, pc, history,
                            checked_out, _pg_pool, pool_seq>>
       /\ _pg_pool' # _pg_pool =>
             \/ /\ _pg_pool = Null /\ op = "init_pool"
                /\ _pg_pool' # Null /\ _pg_pool' \notin 0..pool_seq
                /\ pool_seq' = _pg_pool'
             \/ /\ _pg_pool' = Null /\ op = "close_pool"
                /\ pool_seq' = pool_seq
       /\ (last' # last /\ op = "init_pool" /\ _pg_pool # Null) =>
             UNCHANGED <<_pg_pool, pool_seq>>
       /\ (last' # last /\ op = "close_pool") => _pg_pool' = Null
       /\ _pg_pool' = _pg_pool => pool_seq' = pool_seq]_vars

\* After init_pool, close_pool and init_pool again the second pool is in
\* place, and get_collab has been served from it.
C29_Witness ==
    /\ _pg_pool = 2 /\ pool_seq = 2
    /\ last.call.op = "get" /\ last.result = 200
    /\ last.ret = requests[1]

\* C30: _can_transition(old, new) is true exactly for the edges of the
\* table: PENDING to ACCEPTED, DECLINED or CANCELLED and ACCEPTED to CANCELLED
\* or COMPLETED.  So it is false for every new when old is DECLINED,
\* CANCELLED, COMPLETED or a string the table has no entry for, false for
\* new = PENDING from every old, and false for old = new.
C30_CanTransitionIsTable ==
    last.call.op = "_can_transition" =>
        LET old == last.call.old
            new == last.call.new
        IN  /\ last.ret \in BOOLEAN
            /\ last.ret <=>
                 \/ old = "PENDING" /\ new \in {"ACCEPTED", "DECLINED", "CANCELLED"}
                 \/ old = "ACCEPTED" /\ new \in {"CANCELLED", "COMPLETED"}
            /\ old \in {"DECLINED", "CANCELLED", "COMPLETED", "ARCHIVED"}
                 => ~last.ret
            /\ new = "PENDING" => ~last.ret
            /\ old = new => ~last.ret

\* _can_transition has been applied to a status without an entry in the
\* table and has returned False.
C30_Witness ==
    /\ last.call.op = "_can_transition"
    /\ last.call.old = "ARCHIVED" /\ last.call.new = "ACCEPTED"
    /\ last.ret = FALSE

====
